---- MODULE Spec2Model ----
(***************************************************************************)
(* Model of the org-osbuild-http source module of osbuild:                 *)
(*   - the wire layer (UnixSocket transport, JSON encoding, Envelope),     *)
(*   - the module service HttpSource (from_args, main) and the binary's    *)
(*     main function,                                                      *)
(*   - the Source operations of HttpSource (cached, download,              *)
(*     download_one).                                                      *)
(* Bytes on the wire are sequences of ASCII codes.                         *)
(***************************************************************************)
EXTENDS Integers, Sequences, FiniteSets, TLC

VARIABLES
  args,       \* Arguments parsed by clap: [schema, meta]
  hostBound,  \* whether a datagram socket is bound at the connect path
  pc,         \* position of the process in main / HttpSource::main
  connected,  \* HttpSource holds a connected UnixSocket
  sent,       \* datagrams the module placed on the transport, in order
  inbox,      \* datagrams the host has sent and the module has not received
  buf,        \* main's receive buffer
  nrecv,      \* completed recv calls: <<>> or <<n>>, n the length recv returned
  received,   \* the complete datagram the completed recv took from the socket
  stdout,     \* what the process printed
  exitCode,   \* exit status once pc = "exited"
  ioError,    \* the transport operation that returned an Err, "none" if none
  cpc,        \* Encoding exercise: position
  cvalue,     \* Encoding exercise: the value given to the encoder
  cbytes,     \* Encoding exercise: the bytes encoded or given to the decoder
  cresult,    \* Encoding exercise: the value the decoder returned
  spc,        \* Source exercise: position of the caller
  scur,       \* Source exercise: the checksum key being fetched
  slookup,    \* Source exercise: the last answer of cached()
  sfetched,   \* Source exercise: completed fetches per checksum key
  scalls,     \* Source exercise: calls of download() so far
  topen,      \* Transport exercise: the UnixSocket's descriptor is open
  tlog,       \* Transport exercise: the calls made on the UnixSocket, in order
  fsrc,       \* copy_tree: the entries under src
  fdst,       \* copy_tree: the entries under dst
  fopen,      \* copy_tree: whether src and dst can be opened as directories
  fresult     \* copy_tree: what the last call returned

vars == <<args, hostBound, pc, connected, sent, inbox, buf, nrecv, received,
          stdout, exitCode, ioError, cpc, cvalue, cbytes, cresult, spc, scur, slookup,
          sfetched, scalls, topen, tlog, fsrc, fdst, fopen, fresult>>

serviceVars == <<args, hostBound, pc, connected, sent, inbox, buf, nrecv,
                 received, stdout, exitCode, ioError>>
codecVars == <<cpc, cvalue, cbytes, cresult>>
sourceVars == <<spc, scur, slookup, sfetched, scalls>>
transportVars == <<topen, tlog>>
copyVars == <<fsrc, fdst, fopen, fresult>>

\* ---------------------------------------------------------------- bounds

\* Most datagrams the host queues for the module before it reads them.
MaxInbox == 2
\* Most fetches of one checksum key a caller of the Source trait performs.
MaxFetches == 2
\* Most calls of download() a caller of the Source trait performs.
MaxDownloads == 1
\* Most calls a caller makes on one UnixSocket.
MaxOps == 3

\* ------------------------------------------------------ program constants

\* let mut buf = vec![0; 10];
BufLen == 10
\* Exit status of a Rust process whose main thread panicked (unwrap/expect).
PanicExitCode == 101
\* Lower bound of the digest length in the checksum-key pattern, {32,128}.
MinDigestLen == 32

\* ------------------------------------------------------------ wire bytes

Min(a, b) == IF a <= b THEN a ELSE b

\* b"hi there!"
HiThere == <<104, 105, 32, 116, 104, 101, 114, 101, 33>>
\* serde_json's text for a struct without fields: {}
EmptyStructJson == <<123, 125>>
\* serde_json's text for Envelope: {"type":"<type>","data":"<data>"}
EnvOpen == <<123, 34, 116, 121, 112, 101, 34, 58, 34>>
EnvMid == <<34, 44, 34, 100, 97, 116, 97, 34, 58, 34>>
EnvClose == <<34, 125>>
NameMethod == <<77, 101, 116, 104, 111, 100>>
NameReply == <<82, 101, 112, 108, 121>>
NameSignal == <<83, 105, 103, 110, 97, 108>>
NameException == <<69, 120, 99, 101, 112, 116, 105, 111, 110>>
NameBar == <<98, 97, 114>>
NameFoo == <<102, 111, 111>>

\* The four kinds of message an Envelope may announce, as type strings.
MessageKinds == {NameMethod, NameReply, NameSignal, NameException}

\* JSON string escaping as serde_json writes it: " and \ get a backslash.
\* (Computed by halves, so that the recursion stays shallow.)
RECURSIVE JsonEscape(_)
JsonEscape(s) ==
  IF s = <<>> THEN <<>>
  ELSE IF Len(s) = 1
    THEN IF s[1] = 34 \/ s[1] = 92 THEN <<92, s[1]>> ELSE s
  ELSE LET h == Len(s) \div 2
       IN JsonEscape(SubSeq(s, 1, h)) \o JsonEscape(SubSeq(s, h + 1, Len(s)))

\* An Envelope value: struct Envelope { type: String, data: String }, the
\* strings held as bytes.
Envelope(t, d) == [type |-> t, data |-> d]

\* Envelope::new()
EnvelopeNew == Envelope(NameBar, NameFoo)

\* #[derive(Serialize)] on Envelope, through serde_json::to_string.
SerializeEnvelope(e) ==
  EnvOpen \o JsonEscape(e.type) \o EnvMid \o JsonEscape(e.data) \o EnvClose

\* ------------------------------------------------------- Method payloads
\* What a host writes into the data of a Method Envelope: a JSON object
\* judged by SCHEMA_DATA.  A payload is held as its syntax tree
\*   [props: the top-level property names in order,
\*    key:   [alg, digits] the one checksum key of each item map,
\*    value: [form, fields] the item descriptor under that key]
\* and turned into bytes by SerializeMethod.

KeyItems == <<34, 105, 116, 101, 109, 115, 34, 58>>
KeyUrls == <<34, 117, 114, 108, 115, 34, 58>>
KeyExtra == <<34, 101, 120, 116, 114, 97, 34, 58>>
KeyUrl == <<34, 117, 114, 108, 34, 58>>
KeySecrets == <<34, 115, 101, 99, 114, 101, 116, 115, 34, 58>>
KeyName == <<34, 110, 97, 109, 101, 34, 58>>
UrlText == <<34, 104, 116, 116, 112, 58, 47, 47, 101, 120, 97, 109, 112, 108,
             101, 47, 116, 101, 115, 116, 46, 116, 120, 116, 34>>
SecretText == <<34, 114, 104, 34>>
AlgMd5 == <<109, 100, 53>>
AlgSha256 == <<115, 104, 97, 50, 53, 54>>
AlgCrc32 == <<99, 114, 99, 51, 50>>

\* The algorithm tags of the checksum-key pattern.
SchemaAlgorithms == {"md5", "sha1", "sha256", "sha384", "sha512"}

AlgBytes(alg) ==
  CASE alg = "md5" -> AlgMd5
    [] alg = "sha256" -> AlgSha256
    [] OTHER -> AlgCrc32

RECURSIVE JoinComma(_)
JoinComma(parts) ==
  IF parts = <<>> THEN <<>>
  ELSE IF Len(parts) = 1 THEN parts[1]
  ELSE parts[1] \o <<44>> \o JoinComma(Tail(parts))

JsonObject(members) == <<123>> \o JoinComma(members) \o <<125>>

\* "<alg>:<digits zeros>"
SerializeKey(k) ==
  <<34>> \o AlgBytes(k.alg) \o <<58>> \o [i \in 1..k.digits |-> 48] \o <<34>>

SerializeField(f) ==
  CASE f = "url" -> KeyUrl \o UrlText
    [] f = "secrets" -> KeySecrets \o JsonObject(<<KeyName \o SecretText>>)
    [] OTHER -> KeyExtra \o SecretText

SerializeValue(v) ==
  IF v.form = "string" THEN UrlText
  ELSE JsonObject([i \in 1..Len(v.fields) |-> SerializeField(v.fields[i])])

SerializeItemMap(m) ==
  JsonObject(<<SerializeKey(m.key) \o <<58>> \o SerializeValue(m.value)>>)

SerializeProp(p, m) ==
  CASE p = "items" -> KeyItems \o SerializeItemMap(m)
    [] p = "urls" -> KeyUrls \o SerializeItemMap(m)
    [] OTHER -> KeyExtra \o SerializeItemMap(m)

SerializeMethod(m) ==
  JsonObject([i \in 1..Len(m.props) |-> SerializeProp(m.props[i], m)])

SeqRange(s) == {s[i] : i \in 1..Len(s)}

\* patternProperties "(md5|sha1|sha256|sha384|sha512):[0-9a-f]{32,128}".  The
\* pattern is not anchored, so a key with more than 128 digits matches too.
KeyMatchesPattern(k) == k.alg \in SchemaAlgorithms /\ k.digits >= MinDigestLen

\* oneOf: a string, or an object with "url" required, "secrets" allowed and
\* nothing else.
ValueValid(v) ==
  \/ v.form = "string"
  \/ /\ v.form = "object"
     /\ "url" \in SeqRange(v.fields)
     /\ SeqRange(v.fields) \subseteq {"url", "secrets"}

\* definitions.item: additionalProperties false, patternProperties.
ItemMapValid(m) == KeyMatchesPattern(m.key) /\ ValueValid(m.value)

\* The schema: additionalProperties false, properties items and urls, oneOf
\* required items / required urls.
SchemaValid(m) ==
  LET ps == SeqRange(m.props)
  IN /\ ps \subseteq {"items", "urls"}
     /\ ("items" \in ps) # ("urls" \in ps)
     /\ ItemMapValid(m)

GoodKey == [alg |-> "sha256", digits |-> MinDigestLen]
ShortKey == [alg |-> "md5", digits |-> MinDigestLen - 1]
BadAlgKey == [alg |-> "crc32", digits |-> MinDigestLen]
UrlString == [form |-> "string", fields |-> <<>>]
UrlObject == [form |-> "object", fields |-> <<"url", "secrets">>]
NoUrlObject == [form |-> "object", fields |-> <<"secrets">>]

MethodPayload(ps, k, v) == [props |-> ps, key |-> k, value |-> v]

\* The Method payloads a host sends in this model.
HostMethods ==
  { MethodPayload(<<"items">>, GoodKey, UrlString),
    MethodPayload(<<"urls">>, GoodKey, UrlString),
    MethodPayload(<<"items">>, GoodKey, UrlObject),
    MethodPayload(<<>>, GoodKey, UrlString),
    MethodPayload(<<"items", "urls">>, GoodKey, UrlString),
    MethodPayload(<<"items", "extra">>, GoodKey, UrlString),
    MethodPayload(<<"items">>, ShortKey, UrlString),
    MethodPayload(<<"items">>, BadAlgKey, UrlString),
    MethodPayload(<<"items">>, GoodKey, NoUrlObject) }

\* {"type":
TruncatedJson == <<123, 34, 116, 121, 112, 101, 34, 58>>

\* The Envelopes a host sends in this model: Method Envelopes, Envelopes of
\* the other kinds around an empty payload, and one of an unknown type.
HostEnvelopes ==
  { Envelope(NameMethod, SerializeMethod(m)) : m \in HostMethods }
  \cup { Envelope(t, EmptyStructJson) : t \in MessageKinds \ {NameMethod} }
  \cup { EnvelopeNew }

\* Every datagram a host sends in this model: the Envelopes, and bytes that
\* are no Envelope at all (the last one an empty datagram).
HostDatagrams ==
  { SerializeEnvelope(e) : e \in HostEnvelopes }
  \cup { TruncatedJson, HiThere, <<>> }

\* --------------------------------------------------------------- Encoding
\* The message structs have no fields: a value is its struct name alone.

MessageValue == [struct |-> "Message"]
MethodValue == [struct |-> "Method"]
ReplyValue == [struct |-> "Reply"]
SignalValue == [struct |-> "Signal"]
ExceptionValue == [struct |-> "Exception"]

\* serde_json::to_string of a struct without fields.
ToJsonString(value) == EmptyStructJson

encode_message(message) == ToJsonString(message)
decode_message(message) == MessageValue

encode_method(method) == ToJsonString(method)
decode_method(method) == MethodValue

encode_reply(reply) == ToJsonString(reply)
\* decode_reply building the struct of another kind.
decode_reply_other_struct(reply) == ExceptionValue
decode_reply(reply) == ReplyValue

encode_signal(signal) == ToJsonString(signal)
decode_signal(signal) == SignalValue

encode_exception(exception) == ToJsonString(exception)
decode_exception(exception) == ExceptionValue

\* The values the decoders return.
DecodedValues ==
  {MessageValue, MethodValue, ReplyValue, SignalValue, ExceptionValue}

\* Every byte string the Encoding produces for an inner value.
EncodingOutputs ==
  { encode_method(MethodValue), encode_reply(ReplyValue),
    encode_signal(SignalValue), encode_exception(ExceptionValue) }

\* ---------------------------------------------------------------- service

NoBuf == [i \in 1..BufLen |-> 0]

InitService ==
  /\ args \in [schema : BOOLEAN, meta : BOOLEAN]
  /\ hostBound \in BOOLEAN
  /\ pc = "start"
  /\ connected = FALSE
  /\ sent = <<>>
  /\ inbox = <<>>
  /\ buf = NoBuf
  /\ nrecv = <<>>
  /\ received = <<>>
  /\ stdout = <<>>
  /\ exitCode = 0
  /\ ioError = "none"

\* The process ends with status code.
Exit(code) == pc' = "exited" /\ exitCode' = code

\* fn main without its `else if args.meta` branch: --meta alone runs the
\* service.
MainArgs_MetaRunsService ==
  /\ pc = "start"
  /\ \/ /\ args.schema
        /\ stdout' = Append(stdout, "SCHEMA_DATA")
        /\ Exit(0)
     \/ /\ ~args.schema
        /\ pc' = "from_args"
        /\ UNCHANGED <<stdout, exitCode>>
  /\ UNCHANGED <<args, hostBound, connected, sent, inbox, buf, nrecv, received,
                 ioError>>

\* fn main: Arguments::parse and the branch on schema / meta.
MainArgs ==
  /\ pc = "start"
  /\ \/ /\ args.schema
        /\ stdout' = Append(stdout, "SCHEMA_DATA")
        /\ Exit(0)
     \/ /\ ~args.schema /\ args.meta
        /\ stdout' = Append(stdout, "meta!")
        /\ Exit(0)
     \/ /\ ~args.schema /\ ~args.meta
        /\ pc' = "from_args"
        /\ UNCHANGED <<stdout, exitCode>>
  /\ UNCHANGED <<args, hostBound, connected, sent, inbox, buf, nrecv, received,
                 ioError>>

\* UnixSocket::new_client: unbound() then connect(conn_path); either may fail.
\* The connect succeeds only when a socket is bound at the path.
new_client(bound) == IF bound THEN {"ok", "err"} ELSE {"err"}

\* from_args and main going on to the service although new_client returned
\* an Err.
FromArgs_IgnoresError ==
  /\ pc = "from_args"
  /\ \E r \in new_client(hostBound) :
       /\ ioError' = IF r = "err" THEN "connect" ELSE ioError
       /\ connected' = TRUE
       /\ pc' = "main_send"
       /\ UNCHANGED exitCode
  /\ UNCHANGED <<args, hostBound, sent, inbox, buf, nrecv, received, stdout>>

\* HttpSource::from_args, and main's expect("Could not connect to socket") on
\* its result: an Err panics.
FromArgs ==
  /\ pc = "from_args"
  /\ \E r \in new_client(hostBound) :
       \/ /\ r = "ok"
          /\ connected' = TRUE
          /\ pc' = "main_send"
          /\ UNCHANGED <<exitCode, ioError>>
       \/ /\ r = "err"
          /\ ioError' = "connect"
          /\ Exit(PanicExitCode)
          /\ UNCHANGED connected
  /\ UNCHANGED <<args, hostBound, sent, inbox, buf, nrecv, received, stdout>>

\* UnixSocket::send: the datagram it writes.
send == HiThere

\* The send of HttpSource::main tried again after an Err instead of panicking.
ServiceSend_RetriesOnError ==
  /\ pc = "main_send"
  /\ \/ /\ sent' = Append(sent, send)
        /\ pc' = "main_recv"
        /\ UNCHANGED <<exitCode, ioError>>
     \/ /\ ioError' = "send"
        /\ UNCHANGED <<pc, exitCode, sent>>
  /\ UNCHANGED <<args, hostBound, connected, inbox, buf, nrecv, received, stdout>>

\* HttpSource::main, self.transport.send(): UnixSocket::send unwraps the result
\* of socket.send, so an Err panics.
ServiceSend ==
  /\ pc = "main_send"
  /\ \/ /\ sent' = Append(sent, send)
        /\ pc' = "main_recv"
        /\ UNCHANGED <<exitCode, ioError>>
     \/ /\ ioError' = "send"
        /\ Exit(PanicExitCode)
        /\ UNCHANGED sent
  /\ UNCHANGED <<args, hostBound, connected, inbox, buf, nrecv, received, stdout>>

\* socket.recv(buf) of a datagram socket: the datagram's first bytes, as many
\* as the buffer holds, replace the start of the buffer; the rest of the
\* datagram is dropped.
recv(b, datagram) ==
  LET n == Min(Len(datagram), Len(b))
  IN [buf |-> [i \in 1..Len(b) |-> IF i <= n THEN datagram[i] ELSE b[i]],
      n |-> n]

\* HttpSource::main, self.transport.recv(buf).expect("recv failed"): blocks
\* until a datagram is there; UnixSocket::recv unwraps, so an Err panics.
ServiceRecv ==
  /\ pc = "main_recv"
  /\ \/ /\ inbox # <<>>
        /\ LET r == recv(buf, Head(inbox))
           IN /\ buf' = r.buf
              /\ nrecv' = <<r.n>>
        /\ received' = Head(inbox)
        /\ inbox' = Tail(inbox)
        /\ pc' = "main_print"
        /\ UNCHANGED <<exitCode, ioError>>
     \/ /\ ioError' = "recv"
        /\ Exit(PanicExitCode)
        /\ UNCHANGED <<inbox, buf, nrecv, received>>
  /\ UNCHANGED <<args, hostBound, connected, sent, stdout>>

\* HttpSource::main, println!("Service main"); main returns and the process
\* ends with status 0.
ServicePrint ==
  /\ pc = "main_print"
  /\ stdout' = Append(stdout, "Service main")
  /\ Exit(0)
  /\ UNCHANGED <<args, hostBound, connected, sent, inbox, buf, nrecv, received,
                 ioError>>

\* The host sends a datagram to the module's socket.  (The transport is taken
\* to deliver it: the module's socket exists once new_client has returned.)
HostSend ==
  /\ connected
  /\ pc # "exited"
  /\ Len(inbox) < MaxInbox
  /\ \E d \in HostDatagrams : inbox' = Append(inbox, d)
  /\ UNCHANGED <<args, hostBound, pc, connected, sent, buf, nrecv, received,
                 stdout, exitCode, ioError>>

\* ------------------------------------------------------ Encoding exercise

NoValue == [struct |-> "none"]
NoResult == [decoder |-> "none", value |-> NoValue]

InitCodec ==
  /\ cpc = "idle"
  /\ cvalue = NoValue
  /\ cbytes = <<>>
  /\ cresult = NoResult

Encoded(value, bytes) ==
  /\ cpc = "idle"
  /\ cvalue' = value
  /\ cbytes' = bytes
  /\ cpc' = "bytes"
  /\ UNCHANGED cresult

Decoded(decoder, value) ==
  /\ cpc = "bytes"
  /\ cresult' = [decoder |-> decoder, value |-> value]
  /\ cpc' = "decoded"
  /\ UNCHANGED <<cvalue, cbytes>>

EncodeMessage == Encoded(MessageValue, encode_message(MessageValue))
EncodeMethod == Encoded(MethodValue, encode_method(MethodValue))
EncodeReply == Encoded(ReplyValue, encode_reply(ReplyValue))
EncodeSignal == Encoded(SignalValue, encode_signal(SignalValue))
EncodeException == Encoded(ExceptionValue, encode_exception(ExceptionValue))

DecodeMessage == Decoded("Message", decode_message(cbytes))
DecodeMethod == Decoded("Method", decode_method(cbytes))
DecodeReply == Decoded("Reply", decode_reply(cbytes))
DecodeSignal == Decoded("Signal", decode_signal(cbytes))
DecodeException == Decoded("Exception", decode_exception(cbytes))

\* What recv leaves of a datagram in a buffer of BufLen bytes.
Prefix(d) == SubSeq(d, 1, Min(Len(d), BufLen))

\* Bytes that reach a decoder from the wire: whole datagrams, and their
\* first BufLen bytes.
WireInputs == HostDatagrams \cup {Prefix(d) : d \in HostDatagrams}

\* Bytes from the wire are handed to the decoders.
CodecReceive ==
  /\ cpc = "idle"
  /\ \E b \in WireInputs : cbytes' = b
  /\ cvalue' = NoValue
  /\ cpc' = "bytes"
  /\ UNCHANGED cresult

CodecReset ==
  /\ cpc = "decoded"
  /\ cpc' = "idle"
  /\ cvalue' = NoValue
  /\ cbytes' = <<>>
  /\ cresult' = NoResult

\* -------------------------------------------------------- Source exercise

\* The checksum keys a caller of the Source trait fetches.
Checksums == {"sha256:aa", "sha256:bb", "md5:cc"}

NoLookup == [key |-> "none", hit |-> FALSE, after |-> 0]

\* Source::cached for HttpSource.
cached(checksum) == FALSE

InitSource ==
  /\ spc = "idle"
  /\ scur = "none"
  /\ slookup = NoLookup
  /\ sfetched = [k \in Checksums |-> 0]
  /\ scalls = 0

\* A fetch of checksum key k starts with the cache lookup, cached(k); a hit
\* ends the fetch.  `after` records how many fetches of k had completed.
SourceCached ==
  /\ spc = "idle"
  /\ \E k \in Checksums :
       /\ sfetched[k] < MaxFetches
       /\ scur' = k
       /\ slookup' = [key |-> k, hit |-> cached(k), after |-> sfetched[k]]
       /\ IF cached(k)
            THEN spc' = "idle" /\ sfetched' = [sfetched EXCEPT ![k] = @ + 1]
            ELSE spc' = "miss" /\ UNCHANGED sfetched
  /\ UNCHANGED scalls

\* Source::download_one for HttpSource: returns at once, with nothing stored.
\* It is the download step of the fetch, which is complete when it returns.
SourceDownloadOne ==
  /\ spc = "miss"
  /\ spc' = "idle"
  /\ sfetched' = [sfetched EXCEPT ![scur] = @ + 1]
  /\ UNCHANGED <<scur, slookup, scalls>>

\* Source::download for HttpSource: returns at once.
SourceDownload ==
  /\ spc = "idle"
  /\ scalls < MaxDownloads
  /\ scalls' = scalls + 1
  /\ UNCHANGED <<spc, scur, slookup, sfetched>>

\* ----------------------------------------------------- Transport exercise
\* A caller holds a connected UnixSocket and calls close, send and recv on it.

InitTransport ==
  /\ topen = TRUE
  /\ tlog = <<>>

\* UnixSocket::close: the body is empty, the descriptor stays as it was.
close(open) == open

\* socket.send / socket.recv on the descriptor: an Err when it is not open,
\* and possibly when it is.
socket_io(open) == IF open THEN {"ok", "err"} ELSE {"err"}

Call(op, n) == [op |-> op, n |-> n]

\* No call of the exercise has panicked, and the caller has calls left.
TransportLive ==
  /\ Len(tlog) < MaxOps
  /\ \A i \in 1..Len(tlog) : tlog[i].op # "panic"

\* UnixSocket::close.
TransportClose ==
  /\ TransportLive
  /\ topen' = close(topen)
  /\ tlog' = Append(tlog, Call("close", 0))

\* UnixSocket::send: writes b"hi there!", unwraps the result.
TransportSend ==
  /\ TransportLive
  /\ \E r \in socket_io(topen) :
       tlog' = Append(tlog, IF r = "ok" THEN Call("send", Len(send))
                            ELSE Call("panic", 0))
  /\ UNCHANGED topen

\* UnixSocket::recv into a buffer of BufLen bytes: unwraps the result and
\* returns the length.
TransportRecv ==
  /\ TransportLive
  /\ \E r \in socket_io(topen), d \in HostDatagrams :
       tlog' = Append(tlog, IF r = "ok" THEN Call("recv", recv(NoBuf, d).n)
                            ELSE Call("panic", 0))
  /\ UNCHANGED topen

\* ---------------------------------------------------------------- copy_tree
\* utility::filesystem::copy_tree and its Python binding.

\* The entries a directory tree holds in this model, as relative paths.
TreeEntries == {"a", "a/b", "c"}

\* A tree holds the parent directory of each of its entries.
Trees == { t \in SUBSET TreeEntries : "a/b" \in t => "a" \in t }

NoCopy == [via |-> "none", outcome |-> "none", count |-> 0]

IdleCopy ==
  /\ fsrc = {}
  /\ fdst = {}
  /\ fopen = [src |-> TRUE, dst |-> TRUE]
  /\ fresult = NoCopy

InitCopy ==
  /\ fsrc \in Trees
  /\ fdst \in Trees
  /\ fopen \in [src : BOOLEAN, dst : BOOLEAN]
  /\ fresult = NoCopy

\* copy_tree: Dir::open_ambient_dir(src)?, Dir::open_ambient_dir(dst)?, then
\* count = 0 and Ok(count).  dst is what the call leaves under dst.
copy_tree(src, dst, open) ==
  IF ~open.src \/ ~open.dst
    THEN [outcome |-> "err", count |-> 0, dst |-> dst]
    ELSE [outcome |-> "ok", count |-> 0, dst |-> dst]

\* A Rust caller calls copy_tree(src, dst).
CopyTree ==
  /\ fresult = NoCopy
  /\ LET r == copy_tree(fsrc, fdst, fopen)
     IN /\ fresult' = [via |-> "rust", outcome |-> r.outcome, count |-> r.count]
        /\ fdst' = r.dst
  /\ UNCHANGED <<fsrc, fopen>>

\* utility_filesystem_copy_tree: Ok(copy_tree(src, dst).unwrap()), an Err
\* panics.
PyCopyTree ==
  /\ fresult = NoCopy
  /\ LET r == copy_tree(fsrc, fdst, fopen)
     IN /\ fresult' = [via |-> "python",
                       outcome |-> IF r.outcome = "err" THEN "panic" ELSE "ok",
                       count |-> r.count]
        /\ fdst' = r.dst
  /\ UNCHANGED <<fsrc, fopen>>

\* --------------------------------------------------------- specifications

Init == InitService /\ InitCodec /\ InitSource /\ InitTransport /\ IdleCopy

Next ==
  \/ MainArgs /\ UNCHANGED <<codecVars, sourceVars, transportVars, copyVars>>
  \/ FromArgs /\ UNCHANGED <<codecVars, sourceVars, transportVars, copyVars>>
  \/ ServiceSend /\ UNCHANGED <<codecVars, sourceVars, transportVars, copyVars>>
  \/ ServiceRecv /\ UNCHANGED <<codecVars, sourceVars, transportVars, copyVars>>
  \/ ServicePrint /\ UNCHANGED <<codecVars, sourceVars, transportVars, copyVars>>
  \/ HostSend /\ UNCHANGED <<codecVars, sourceVars, transportVars, copyVars>>

\* A run of the binary: main, and the module service when neither flag is set.
Spec == Init /\ [][Next]_vars

IdleService ==
  /\ args = [schema |-> FALSE, meta |-> FALSE]
  /\ hostBound = FALSE
  /\ pc = "start"
  /\ connected = FALSE
  /\ sent = <<>>
  /\ inbox = <<>>
  /\ buf = NoBuf
  /\ nrecv = <<>>
  /\ received = <<>>
  /\ stdout = <<>>
  /\ exitCode = 0
  /\ ioError = "none"

\* The process is not run; the Encoding and the Source are called directly.
InitLibrary ==
  IdleService /\ InitCodec /\ InitSource /\ InitTransport /\ IdleCopy

NextEncoding ==
  \/ EncodeMessage /\ UNCHANGED <<serviceVars, sourceVars, transportVars, copyVars>>
  \/ EncodeMethod /\ UNCHANGED <<serviceVars, sourceVars, transportVars, copyVars>>
  \/ EncodeReply /\ UNCHANGED <<serviceVars, sourceVars, transportVars, copyVars>>
  \/ EncodeSignal /\ UNCHANGED <<serviceVars, sourceVars, transportVars, copyVars>>
  \/ EncodeException /\ UNCHANGED <<serviceVars, sourceVars, transportVars, copyVars>>
  \/ DecodeMessage /\ UNCHANGED <<serviceVars, sourceVars, transportVars, copyVars>>
  \/ DecodeMethod /\ UNCHANGED <<serviceVars, sourceVars, transportVars, copyVars>>
  \/ DecodeReply /\ UNCHANGED <<serviceVars, sourceVars, transportVars, copyVars>>
  \/ DecodeSignal /\ UNCHANGED <<serviceVars, sourceVars, transportVars, copyVars>>
  \/ DecodeException /\ UNCHANGED <<serviceVars, sourceVars, transportVars, copyVars>>
  \/ CodecReceive /\ UNCHANGED <<serviceVars, sourceVars, transportVars, copyVars>>
  \/ CodecReset /\ UNCHANGED <<serviceVars, sourceVars, transportVars, copyVars>>

\* The JSON Encoding applied to values and to bytes from the wire.
SpecEncoding == InitLibrary /\ [][NextEncoding]_vars

NextFetch ==
  \/ SourceCached /\ UNCHANGED <<serviceVars, codecVars, transportVars, copyVars>>
  \/ SourceDownloadOne /\ UNCHANGED <<serviceVars, codecVars, transportVars, copyVars>>
  \/ SourceDownload /\ UNCHANGED <<serviceVars, codecVars, transportVars, copyVars>>

\* The Source operations of HttpSource called by a fetching caller.
SpecSource == InitLibrary /\ [][NextFetch]_vars

NextTransport ==
  \/ TransportClose /\ UNCHANGED <<serviceVars, codecVars, sourceVars, copyVars>>
  \/ TransportSend /\ UNCHANGED <<serviceVars, codecVars, sourceVars, copyVars>>
  \/ TransportRecv /\ UNCHANGED <<serviceVars, codecVars, sourceVars, copyVars>>

\* The Transport operations of UnixSocket called on one connected socket.
SpecTransport == InitLibrary /\ [][NextTransport]_vars

InitFilesystem ==
  IdleService /\ InitCodec /\ InitSource /\ InitTransport /\ InitCopy

NextFilesystem ==
  \/ CopyTree /\ UNCHANGED <<serviceVars, codecVars, sourceVars, transportVars>>
  \/ PyCopyTree /\ UNCHANGED <<serviceVars, codecVars, sourceVars, transportVars>>

\* copy_tree called once on some src and dst.
SpecFilesystem == InitFilesystem /\ [][NextFilesystem]_vars

\* ------------------------------------------------- reading bytes as JSON
\* Deserialize for Envelope and for the Method payload, as the inverse of the
\* serializers over the Envelopes and payloads of this model.

\* The Envelopes the module can build from its Encoding's output.
ModuleEnvelopes == { Envelope(t, d) : t \in MessageKinds, d \in EncodingOutputs }

NotAnEnvelope == Envelope(<<>>, <<>>)

\* serde_json::from_str::<Envelope>: the Envelope the bytes are the text of,
\* NotAnEnvelope when they are the text of none.
DeserializeEnvelope(bytes) ==
  LET es == { e \in HostEnvelopes \cup ModuleEnvelopes : SerializeEnvelope(e) = bytes }
  IN IF es = {} THEN NotAnEnvelope ELSE CHOOSE e \in es : TRUE

\* The bytes are an Envelope of one of the four kinds.
IsKnownEnvelope(bytes) == DeserializeEnvelope(bytes).type \in MessageKinds

IsEnvelopeOfKind(bytes, kind) == DeserializeEnvelope(bytes).type = kind

\* The bytes are an Envelope of a known kind whose data the Encoding produced.
IsWireEnvelope(bytes) == DeserializeEnvelope(bytes) \in ModuleEnvelopes

\* The bytes are a Method Envelope whose payload breaks the schema.
IsSchemaInvalidMethod(bytes) ==
  /\ IsEnvelopeOfKind(bytes, NameMethod)
  /\ \E m \in HostMethods :
       /\ SerializeMethod(m) = DeserializeEnvelope(bytes).data
       /\ ~SchemaValid(m)

SentOfKind(kind) == { i \in 1..Len(sent) : IsEnvelopeOfKind(sent[i], kind) }

\* HttpSource::main ran to its end: it printed its last line and the process
\* ended.
ServiceTerminated == pc = "exited" /\ "Service main" \in SeqRange(stdout)

\* ----------------------------------------------------------------- claims

\* C1: the module sends nothing on the transport before it has received its
\* Method: whenever something was sent, a recv had completed and the datagram
\* it took was a Method Envelope.
C1_NoSendBeforeMethod ==
  sent # <<>> => (nrecv # <<>> /\ IsEnvelopeOfKind(received, NameMethod))

\* C2: a run of the service that reached its end has sent exactly one terminal
\* message, a Reply or an Exception, and the exit status is 0 exactly when that
\* message was a Reply.
C2_ExactlyOneTerminalMessage ==
  ServiceTerminated =>
    /\ Cardinality(SentOfKind(NameReply) \cup SentOfKind(NameException)) = 1
    /\ (exitCode = 0) <=> (SentOfKind(NameReply) # {})

\* C3: every datagram the module placed on the transport is an Envelope whose
\* type is Method, Reply, Signal or Exception and whose data is bytes the
\* Encoding produced.
C3_OnlyEnvelopesSent ==
  \A i \in 1..Len(sent) : IsWireEnvelope(sent[i])

C5_UnknownOrMalformedIsError ==
  (cpc = "decoded" /\ cvalue = NoValue /\ ~IsKnownEnvelope(cbytes))
    => cresult.value \notin DecodedValues

\* C6: when the first message the module received is an Envelope of kind
\* Reply, Signal or Exception, the module has sent an Exception by the time it
\* ends, and ends with a non-zero status.
C6_NonMethodIsProtocolViolation ==
  (pc = "exited" /\ nrecv # <<>>
     /\ DeserializeEnvelope(received).type \in MessageKinds \ {NameMethod})
    => (SentOfKind(NameException) # {} /\ exitCode # 0)

\* C7: when the module received a Method that breaks its schema, it has sent
\* an Exception by the time it ends.
C7_SchemaViolationRejected ==
  (pc = "exited" /\ nrecv # <<>> /\ IsSchemaInvalidMethod(received))
    => SentOfKind(NameException) # {}

\* C8: once a fetch of a checksum key has completed, cached() of that key
\* reports a hit.
C8_CacheIdempotence ==
  slookup.after >= 1 => slookup.hit

\* The bytes are a Reply or an Exception Envelope.
IsTerminalMessage(bytes) ==
  IsEnvelopeOfKind(bytes, NameReply) \/ IsEnvelopeOfKind(bytes, NameException)

\* C13: the terminal Reply or Exception is the last message the module sends:
\* when the service has ended, the last datagram it sent is a Reply or an
\* Exception, and none before it is.
C13_TerminalMessageIsLast ==
  ServiceTerminated =>
    /\ sent # <<>>
    /\ IsTerminalMessage(sent[Len(sent)])
    /\ \A i \in 1..(Len(sent) - 1) : ~IsTerminalMessage(sent[i])

\* C15: started with --schema or --meta (or both), the binary prints its
\* description and exits 0 with no transport constructed, nothing sent and
\* nothing received; from_args and main run only when neither flag is given.
C15_FlagsSkipService ==
  (args.schema \/ args.meta) =>
    /\ pc \in {"start", "exited"}
    /\ ~connected /\ ioError = "none"
    /\ sent = <<>> /\ nrecv = <<>> /\ inbox = <<>>
    /\ pc = "exited" =>
         /\ exitCode = 0
         /\ stdout = <<IF args.schema THEN "SCHEMA_DATA" ELSE "meta!">>

\* C15 witness: both flags were given and the process has ended.
C15_FlagsSkipServiceWitness ==
  /\ args.schema /\ args.meta
  /\ pc = "exited"
  /\ stdout = <<"SCHEMA_DATA">>

\* A transport operation of this run returned an Err.
TransportFailed == ioError # "none"

\* C18: a transport failure (connect, send or recv) is fatal and not retried:
\* the process has ended with a non-zero status and no Reply sent, and nothing
\* is sent or received after the failure.
C18_TransportFailureIsFatal ==
  /\ [](TransportFailed =>
          (pc = "exited" /\ exitCode # 0 /\ SentOfKind(NameReply) = {}))
  /\ [][TransportFailed => UNCHANGED <<sent, nrecv, buf, received, ioError>>]_vars

\* C18 witness: the recv of main failed after the send had succeeded.
C18_TransportFailureWitness ==
  /\ ioError = "recv"
  /\ sent = <<send>>
  /\ pc = "exited"

\* C19: the bytes main holds after its recv are the complete bytes of the one
\* datagram the recv took, whatever its length.
C19_WholeDatagramReceived ==
  nrecv # <<>> =>
    /\ nrecv[1] = Len(received)
    /\ SubSeq(buf, 1, nrecv[1]) = received

\* C20: when connecting to the host socket fails, no service is constructed,
\* HttpSource::main is not entered and nothing is sent or received.
C20_ConnectFailureRunsNothing ==
  ioError = "connect" =>
    /\ ~connected
    /\ pc = "exited"
    /\ sent = <<>> /\ nrecv = <<>> /\ inbox = <<>>
    /\ "Service main" \notin SeqRange(stdout)

\* C20 witness: no socket was bound at the path, the connect failed and the
\* process has ended.
C20_ConnectFailureWitness ==
  /\ ~hostBound
  /\ ioError = "connect"
  /\ pc = "exited"
  /\ exitCode = PanicExitCode

\* C16: close releases the channel: once close has been called the socket is
\* no longer open and no later send or recv on it succeeds.
C16_CloseReleasesChannel ==
  \A i \in 1..Len(tlog) :
    tlog[i].op = "close" =>
      /\ ~topen
      /\ \A j \in (i + 1)..Len(tlog) : tlog[j].op \notin {"send", "recv"}

\* C17: a copy_tree that returns Ok returns the number of entries under src
\* and leaves every entry of src under dst; when src or dst cannot be opened
\* it returns an Err.
C17_CopyTreeCopiesAndCounts ==
  /\ fresult.outcome = "ok" =>
       /\ fresult.count = Cardinality(fsrc)
       /\ fsrc \subseteq fdst
  /\ (fresult.via = "rust" /\ (~fopen.src \/ ~fopen.dst)) =>
       fresult.outcome = "err"

====
